---- MODULE Spec2Model ----
(***************************************************************************)
(* Clock-domain configuration engine of rp2040-hal (clocks/macros.rs).     *)
(*                                                                         *)
(* The clock! macro stamps out one type per clock domain.  The model is    *)
(* one such domain, of one of the three shapes the macro can expand to:    *)
(*   "glitchless"  primary (glitchless) mux + auxiliary mux + divider      *)
(*   "stoppable"   auxiliary mux + enable/kill + divider                   *)
(*   "nodiv"       auxiliary mux + enable/kill, declared  div: false       *)
(* together with the domain's registers in the shared register block, the  *)
(* handles ClocksManager has issued for it, the program's position inside  *)
(* configure_clock / reset_source_await, and the hardware that updates the *)
(* selected-status register on its own schedule.                           *)
(***************************************************************************)
EXTENDS Integers, Sequences, FiniteSets, TLC

\* ---------------------------------------------------------------- bounds
\* Source and target frequencies are drawn from 1..MaxFreq.
MaxFreq == 2
\* Number of handles the program requests from ClocksManager.
MaxHandles == 2

\* ------------------------------------------------------- program constants
\* $default_src: the primary-mux code of the default source.
DefaultSrc == 0
\* $use_aux_src: the primary-mux code "use the auxiliary mux".
UseAuxSrc == 1
\* a second source wired to the primary mux ($src list).
AltSrc == 2
\* get_div of a domain declared div: false.
FixedDiv == 1
\* let sys_freq = 125_000_000
SysFreq == 125000000
\* clock_nr of the token reset_source_await polls with.
ResetClockNr == 0

VARIABLES
    kind,       \* which macro arm this domain was generated by
    ctrl,       \* the domain's control register: src, auxsrc, enable, kill
    div_reg,    \* the domain's divisor register
    selected,   \* the domain's selected-status register (glitchless only)
    frequency,  \* frequency[h]: the cached frequency of handle h
    pc,         \* position of the (single-threaded) program
    call,       \* arguments and locals of the operation in progress
    token,      \* the ChangingClockToken alive in the operation in progress
    result,     \* value returned by the operation that has just finished
    xosc,       \* the crystal oscillator: XOSC registers and CrystalOscillator<S>
    timer,      \* the TIMER counter and a try_now in progress
    wd,         \* the WATCHDOG registers and the Watchdog struct
    frame       \* two clock domains side by side, for whole operations

\* The peripherals beside the clock domain; each has its own specification.
periph == <<xosc, timer, wd, frame>>

vars == <<kind, ctrl, div_reg, selected, frequency, pc, call, token, result, xosc, timer, wd, frame>>

Kinds == {"glitchless", "stoppable", "nodiv"}

Pow2(n) == 2 ^ n

\* ------------------------------------------------------------ sources
\* A source valid for the domain, as ValidSrc::variant() resolves it:
\* aux = FALSE is SrcType::Src(code), aux = TRUE is SrcType::Aux(code).
SrcCodes == {DefaultSrc, AltSrc}
AuxCodes == {0, 1}

ValidSrc(k) ==
    IF k = "glitchless"
    THEN [aux : {FALSE}, code : SrcCodes] \cup [aux : {TRUE}, code : AuxCodes]
    ELSE [aux : {TRUE}, code : AuxCodes]

is_aux(v) == v.aux

get_clock_id(v) == v.code

unwrap_src(v) == IF v.aux THEN UseAuxSrc ELSE v.code

unwrap_aux(v) == v.code

\* ------------------------------------------------------ divisor arithmetic
make_div(src_freq, freq) == src_freq \div freq

make_frequency(src_freq, div) == src_freq \div div

\* Variant: the comparison the other way round.
TooHigh_reversed(freq, src_freq) == freq < src_freq

\* if freq .gt(& src_freq) { return false; }
TooHigh(freq, src_freq) == freq > src_freq

\* Variant: the divisor is written early when it decreases.
IncreasingDiv_reversed(div, cur) == div < cur

\* if div > self.get_div() { self.set_div(div); }
IncreasingDiv(div, cur) == div > cur

get_div(k, reg) == IF k = "nodiv" THEN FixedDiv ELSE reg

set_div(k, reg, div) == IF k = "nodiv" THEN reg ELSE div

\* (sys_freq / frequency) + 1
delay_cyc(f) == (SysFreq \div f) + 1

\* --------------------------------------------------------- register writes
\* The control register's value after reset, which .write() starts from.
CtrlReset == [src |-> 0, auxsrc |-> 0, enable |-> FALSE, kill |-> FALSE]

\* ctrl.write(|w| w.src().variant($default_src))
reset_source_write(c) == [CtrlReset EXCEPT !.src = DefaultSrc]

reset_source_token == [clock_nr |-> ResetClockNr, wrote |-> DefaultSrc, confirmed |-> FALSE]

\* ctrl.modify(|_, w| w.src().variant(src.variant().unwrap_src()))
set_src_write(c, v) == [c EXCEPT !.src = unwrap_src(v)]

\* Variant: the token keeps clock_nr 0 whatever source was written.
set_src_token_fixed(v) == [clock_nr |-> ResetClockNr, wrote |-> unwrap_src(v), confirmed |-> FALSE]

set_src_token(v) == [clock_nr |-> get_clock_id(v), wrote |-> unwrap_src(v), confirmed |-> FALSE]

\* ctrl.modify(|_, w| w.src().variant($use_aux_src))
set_self_aux_src_write(c) == [c EXCEPT !.src = UseAuxSrc]

\* Variant: the token literal of reset_source_await, clock_nr 0, pasted here.
set_self_aux_src_token_pasted == [clock_nr |-> ResetClockNr, wrote |-> UseAuxSrc, confirmed |-> FALSE]

set_self_aux_src_token == [clock_nr |-> UseAuxSrc, wrote |-> UseAuxSrc, confirmed |-> FALSE]

\* ctrl.modify(|_, w| w.auxsrc().variant(src.variant().unwrap_aux()))
set_aux_write(c, v) == [c EXCEPT !.auxsrc = unwrap_aux(v)]

enable(c) == [c EXCEPT !.enable = TRUE]

\* Variant: set_bit where clear_bit is meant.
disable_setbit(c) == [c EXCEPT !.enable = TRUE]

disable(c) == [c EXCEPT !.enable = FALSE]

kill(c) == [c EXCEPT !.kill = TRUE]

\* Variant: the test inverted, Ok while the selection is not yet shown.
await_select_inverted(sel, tok) == sel # Pow2(tok.clock_nr)

\* selected == 1 << clock_token.clock_nr
await_select(sel, tok) == sel = Pow2(tok.clock_nr)

\* ------------------------------------------------------------- the state
NoToken == [clock_nr |-> 0, wrote |-> 0, confirmed |-> FALSE, live |-> FALSE]

Live(t) == [clock_nr |-> t.clock_nr, wrote |-> t.wrote, confirmed |-> t.confirmed, live |-> TRUE]

NoSrc == [aux |-> FALSE, code |-> 0]

NoPre == [ctrl |-> CtrlReset, div |-> 0, cached |-> 0, sel |-> 0]

NoCall == [op |-> "none", h |-> 0, src |-> NoSrc, src_freq |-> 0, freq |-> 0,
           div |-> 0, pre |-> NoPre, rep |-> FALSE, delay |-> 0]

\* XOSC after reset, its device not yet wrapped in a CrystalOscillator.
\* range and enable are the two fields of XOSC.CTRL; pre, seen, init_freq
\* and forged record what a call found and did.
XoscReset ==
    [state |-> "Free", freq_hz |-> 0, range |-> "reset", enable |-> "reset",
     startup |-> 0, stable |-> FALSE, dormant |-> FALSE, tokens |-> 0,
     pc |-> "idle", op |-> "none", arg |-> 0, delay |-> 0, result |-> "none",
     pre |-> <<"reset", "reset", 0>>, seen |-> FALSE, init_freq |-> 0,
     forged |-> FALSE]

\* TIMER after reset: the counter at 0 and no try_now in progress. age counts
\* the advances of the counter, start and ret are the counter at the start
\* of a call and the value the call returns.
TimerReset ==
    [count |-> 0, age |-> 0, pc |-> "idle", high |-> 0, low |-> 0,
     start |-> 0, ret |-> 0, retries |-> 0]

\* WATCHDOG after reset and Watchdog::new: CTRL.ENABLE clear and the three
\* pause bits at their reset value, set (pause stands for the three bits,
\* always written together),
\* LOAD 0, delay_ms 0. period, pre and started record the argument of the
\* last start, the registers it found, and the value the last successful
\* start loaded; want_enable and want_pause are what the most recent
\* start/disable and the most recent pause_on_debug asked for. A u32 period
\* is held as top * 2^31 + rest.
PauseReset == TRUE

WdReset ==
    [enable |-> FALSE, pause |-> PauseReset, load |-> 0, delay_ms |-> 0,
     pc |-> "idle", op |-> "none", period |-> [top |-> 0, rest |-> 0],
     pre |-> <<FALSE, PauseReset, 0>>, started |-> 0, armed |-> FALSE,
     panicked |-> FALSE, want_enable |-> FALSE, want_pause |-> PauseReset]

\* Two domains generated by the macros, clk_a by the glitchless arm and
\* clk_b by the stoppable arm with a divider: each has its own control,
\* divisor and selected-status registers in the shared CLOCKS block (regs)
\* and its own handle with a cached frequency (cached). last is the domain
\* of the most recent call.
FrameDomains == {"clk_a", "clk_b"}

FrameKind == [x \in FrameDomains |-> IF x = "clk_a" THEN "glitchless" ELSE "stoppable"]

FrameReset ==
    [regs |-> [x \in FrameDomains |->
                  [ctrl |-> CtrlReset, div |-> 1, selected |-> Pow2(CtrlReset.src)]],
     cached |-> [x \in FrameDomains |-> 0],
     last |-> "none"]

Init ==
    /\ kind \in Kinds
    /\ ctrl = CtrlReset
    /\ div_reg = 1
    /\ selected = Pow2(CtrlReset.src)
    /\ frequency = <<>>
    /\ pc = "idle"
    /\ call = NoCall
    /\ token = NoToken
    /\ result = "none"
    /\ xosc = XoscReset
    /\ timer = TimerReset
    /\ wd = WdReset
    /\ frame = FrameReset

\* ------------------------------------------------------- ClocksManager
\* pub fn $name(&self) -> $name { $name { shared_dev, frequency: 0.Hz() } }
Accessor ==
    /\ pc = "idle"
    /\ Len(frequency) < MaxHandles
    /\ frequency' = Append(frequency, 0)
    /\ UNCHANGED <<periph, kind, ctrl, div_reg, selected, pc, call, token, result>>

\* ---------------------------------------------------- configure_clock
\* The caller that has just been handed `true` calls configure_clock again
\* at once, on the same handle with the same source and target frequency.
Repeats(h, v, src_freq, freq) ==
    /\ pc = "ret"
    /\ call.op = "configure"
    /\ result = "true"
    /\ call.h = h
    /\ call.src = v
    /\ call.src_freq = src_freq
    /\ call.freq = freq

\* Entry: read the source frequency, validate, compute the divisor.
\* pre is the state the call found; rep marks a call that repeats the
\* call before it.
ConfigureClock(h, v, src_freq, freq) ==
    /\ pc = "idle" \/ Repeats(h, v, src_freq, freq)
    /\ LET pre == [ctrl |-> ctrl, div |-> div_reg, cached |-> frequency[h], sel |-> selected]
           rec == [op |-> "configure", h |-> h, src |-> v, src_freq |-> src_freq,
                   freq |-> freq, div |-> 0, pre |-> pre,
                   rep |-> Repeats(h, v, src_freq, freq), delay |-> 0]
       IN IF TooHigh(freq, src_freq)
          THEN /\ call' = rec
               /\ result' = "false"
               /\ pc' = "ret"
          ELSE /\ call' = [rec EXCEPT !.div = make_div(src_freq, freq)]
               /\ result' = "none"
               /\ pc' = "raise_div"
    /\ UNCHANGED <<periph, kind, ctrl, div_reg, selected, frequency, token>>

\* if div > self.get_div() { self.set_div(div); }
RaiseDiv ==
    /\ pc = "raise_div"
    /\ div_reg' = IF IncreasingDiv(call.div, get_div(kind, div_reg))
                  THEN set_div(kind, div_reg, call.div)
                  ELSE div_reg
    /\ pc' = IF kind = "glitchless"
             THEN (IF is_aux(call.src) THEN "reset_write" ELSE "set_src")
             ELSE "disable"
    /\ UNCHANGED <<periph, kind, ctrl, selected, frequency, call, token, result>>

\* reset_source_await, first half: the register write.
ResetWrite ==
    /\ pc = "reset_write"
    /\ ctrl' = reset_source_write(ctrl)
    /\ token' = Live(reset_source_token)
    /\ pc' = "reset_poll"
    /\ UNCHANGED <<periph, kind, div_reg, selected, frequency, call, result>>

\* Variant: configure_clock goes on after one poll of reset_source_await,
\* whatever it returned.
ResetPoll_unchecked ==
    /\ pc = "reset_poll"
    /\ LET ok == await_select(selected, token)
       IN IF call.op = "configure"
          THEN /\ pc' = "set_aux"
               /\ result' = result
          ELSE /\ pc' = "ret"
               /\ result' = IF ok THEN "Ok" ELSE "WouldBlock"
    /\ token' = NoToken
    /\ UNCHANGED <<periph, kind, ctrl, div_reg, selected, frequency, call>>

\* reset_source_await, second half: one poll with the token it built.
\* Inside configure_clock nb::block! calls reset_source_await again on
\* WouldBlock; called on its own, the result goes back to the caller.
ResetPoll ==
    /\ pc = "reset_poll"
    /\ LET ok == await_select(selected, token)
       IN IF call.op = "configure"
          THEN /\ pc' = IF ok THEN "set_aux" ELSE "reset_write"
               /\ result' = result
          ELSE /\ pc' = "ret"
               /\ result' = IF ok THEN "Ok" ELSE "WouldBlock"
    /\ token' = NoToken
    /\ UNCHANGED <<periph, kind, ctrl, div_reg, selected, frequency, call>>

\* self.set_aux(src)
SetAux ==
    /\ pc = "set_aux"
    /\ ctrl' = set_aux_write(ctrl, call.src)
    /\ pc' = IF kind = "glitchless" THEN "set_self_aux_src" ELSE "enable"
    /\ UNCHANGED <<periph, kind, div_reg, selected, frequency, call, token, result>>

\* self.set_self_aux_src()
SetSelfAuxSrc ==
    /\ pc = "set_self_aux_src"
    /\ ctrl' = set_self_aux_src_write(ctrl)
    /\ token' = Live(set_self_aux_src_token)
    /\ pc' = "await_select"
    /\ UNCHANGED <<periph, kind, div_reg, selected, frequency, call, result>>

\* self.set_src(src)
SetSrc ==
    /\ pc = "set_src"
    /\ ctrl' = set_src_write(ctrl, call.src)
    /\ token' = Live(set_src_token(call.src))
    /\ pc' = "await_select"
    /\ UNCHANGED <<periph, kind, div_reg, selected, frequency, call, result>>

\* nb::block!(self.await_select(&token)): a poll that confirms ...
AwaitSelectOk ==
    /\ pc = "await_select"
    /\ await_select(selected, token)
    /\ token' = [token EXCEPT !.confirmed = TRUE]
    /\ pc' = "set_div"
    /\ UNCHANGED <<periph, kind, ctrl, div_reg, selected, frequency, call, result>>

\* ... and a poll that returns WouldBlock, after which block! polls again.
AwaitSelectBlocked ==
    /\ pc = "await_select"
    /\ ~await_select(selected, token)
    /\ UNCHANGED vars

\* Variant: the closing brace of the `if` after set_aux and enable, so that
\* both run only for a domain that was running.
Disable_brace ==
    /\ pc = "disable"
    /\ ctrl' = disable(ctrl)
    /\ pc' = IF frequency[call.h] > 0 THEN "delay" ELSE "set_div"
    /\ UNCHANGED <<periph, kind, div_reg, selected, frequency, call, token, result>>

\* self.disable()
Disable ==
    /\ pc = "disable"
    /\ ctrl' = disable(ctrl)
    /\ pc' = IF frequency[call.h] > 0 THEN "delay" ELSE "set_aux"
    /\ UNCHANGED <<periph, kind, div_reg, selected, frequency, call, token, result>>

\* cortex_m::asm::delay(delay_cyc)
Delay ==
    /\ pc = "delay"
    /\ call' = [call EXCEPT !.delay = delay_cyc(frequency[call.h])]
    /\ pc' = "set_aux"
    /\ UNCHANGED <<periph, kind, ctrl, div_reg, selected, frequency, token, result>>

\* self.enable()
Enable ==
    /\ pc = "enable"
    /\ ctrl' = enable(ctrl)
    /\ pc' = "set_div"
    /\ UNCHANGED <<periph, kind, div_reg, selected, frequency, call, token, result>>

\* self.set_div(div)
SetDiv ==
    /\ pc = "set_div"
    /\ div_reg' = set_div(kind, div_reg, call.div)
    /\ pc' = "store_freq"
    /\ UNCHANGED <<periph, kind, ctrl, selected, frequency, call, token, result>>

\* self.frequency = make_frequency(src_freq, div).unwrap(); true
StoreFreq ==
    /\ pc = "store_freq"
    /\ frequency' = [frequency EXCEPT ![call.h] = make_frequency(call.src_freq, call.div)]
    /\ result' = "true"
    /\ token' = NoToken
    /\ pc' = "ret"
    /\ UNCHANGED <<periph, kind, ctrl, div_reg, selected, call>>

\* The caller takes the returned value; the operation's locals are gone.
Return ==
    /\ pc = "ret"
    /\ pc' = "idle"
    /\ call' = NoCall
    /\ result' = "none"
    /\ UNCHANGED <<periph, kind, ctrl, div_reg, selected, frequency, token>>

\* ------------------------------------------- operations called on their own
\* pub fn reset_source_await(&mut self)
ResetSourceAwait(h) ==
    /\ pc = "idle"
    /\ kind = "glitchless"
    /\ call' = [NoCall EXCEPT !.op = "reset", !.h = h]
    /\ pc' = "reset_write"
    /\ UNCHANGED <<periph, kind, ctrl, div_reg, selected, frequency, token, result>>

\* ClockDivision::set_div
SetDivOp(h, d) ==
    /\ pc = "idle"
    /\ div_reg' = set_div(kind, div_reg, d)
    /\ UNCHANGED <<periph, kind, ctrl, selected, frequency, pc, call, token, result>>

\* StoppableClock::enable / disable / kill
EnableOp(h) ==
    /\ pc = "idle"
    /\ kind # "glitchless"
    /\ ctrl' = enable(ctrl)
    /\ UNCHANGED <<periph, kind, div_reg, selected, frequency, pc, call, token, result>>

DisableOp(h) ==
    /\ pc = "idle"
    /\ kind # "glitchless"
    /\ ctrl' = disable(ctrl)
    /\ UNCHANGED <<periph, kind, div_reg, selected, frequency, pc, call, token, result>>

KillOp(h) ==
    /\ pc = "idle"
    /\ kind # "glitchless"
    /\ ctrl' = kill(ctrl)
    /\ UNCHANGED <<periph, kind, div_reg, selected, frequency, pc, call, token, result>>

\* ------------------------------------------------------------ hardware
\* The glitchless mux completes a requested switch at a time of its own
\* choosing: the selected-status register becomes the one-hot code of the
\* primary-mux field.
Hardware ==
    /\ kind = "glitchless"
    /\ selected # Pow2(ctrl.src)
    /\ selected' = Pow2(ctrl.src)
    /\ UNCHANGED <<periph, kind, ctrl, div_reg, frequency, pc, call, token, result>>

Handles == 1..Len(frequency)

Freqs == 1..MaxFreq

Step ==
    \/ RaiseDiv
    \/ ResetWrite
    \/ ResetPoll
    \/ SetAux
    \/ SetSelfAuxSrc
    \/ SetSrc
    \/ AwaitSelectOk
    \/ AwaitSelectBlocked
    \/ Disable
    \/ Delay
    \/ Enable
    \/ SetDiv
    \/ StoreFreq
    \/ Return

Next ==
    \/ Accessor
    \/ \E h \in Handles, v \in ValidSrc(kind), src_freq \in Freqs, freq \in Freqs :
          ConfigureClock(h, v, src_freq, freq)
    \/ \E h \in Handles : ResetSourceAwait(h)
    \/ \E h \in Handles, d \in Freqs : SetDivOp(h, d)
    \/ \E h \in Handles : EnableOp(h)
    \/ \E h \in Handles : DisableOp(h)
    \/ \E h \in Handles : KillOp(h)
    \/ Step
    \/ Hardware

Spec == Init /\ [][Next]_vars

\* The hardware completes every switch it is asked for, and the program,
\* which nothing pre-empts, takes its next step.
FairSpec == Init /\ [][Next]_vars /\ WF_vars(Hardware) /\ WF_vars(Step)

\* ------------------------------------------------------ positions of a call
InConfigure == call.op = "configure"

\* The primary-mux code a glitchless configure_clock asks for.
Requested == IF call.src.aux THEN UseAuxSrc ELSE call.src.code

\* From the early divisor decision up to the confirmation of the switch.
Switching ==
    IF kind = "glitchless"
    THEN {"reset_write", "reset_poll", "set_aux", "set_self_aux_src", "set_src", "await_select"}
    ELSE {"disable", "delay", "set_aux", "enable"}

Returned(r) == pc = "ret" /\ InConfigure /\ result = r

\* ------------------------------------------------------------------- C1
\* C1: a configure_clock whose target frequency exceeds the source
\* frequency returns false at once: it never reaches a step that writes a
\* register, and the control register, the divisor register and the
\* handle's cached frequency are what they were when it was called.
C1_RejectLeavesState ==
    (InConfigure /\ call.freq > call.src_freq) =>
        /\ pc = "ret"
        /\ result = "false"
        /\ ctrl = call.pre.ctrl
        /\ div_reg = call.pre.div
        /\ frequency[call.h] = call.pre.cached
        /\ ~token.live

C1_Witness ==
    /\ Returned("false")
    /\ call.freq > call.src_freq
    /\ call.pre.cached > 0
    /\ div_reg > 1

\* ------------------------------------------------------------------- C2
\* C2: after configure_clock returns true, on every kind of domain, the
\* divisor get_div() reports is floor(source / target), is at least 1, and
\* the cached frequency is source / that divisor.
C2_CachedMatchesDivisor ==
    Returned("true") =>
        LET d == get_div(kind, div_reg)
        IN /\ d >= 1
           /\ d = call.src_freq \div call.freq
           /\ frequency[call.h] = call.src_freq \div d

\* The same statement for the domains that have a divider.
C2_DivisibleDomains == (kind # "nodiv") => C2_CachedMatchesDivisor

\* ------------------------------------------------------------------- C3
\* C3: on a domain with a divisor register, a new divisor strictly greater
\* than the register's value at the call is in the register before the
\* first source-select write and stays there; a strictly smaller one leaves
\* the register at its old value until the switch is confirmed (glitchless:
\* await_select succeeded; stoppable: aux mux written and domain enabled)
\* and is written only then.
C3_DivisorOrdering ==
    (InConfigure /\ kind # "nodiv") =>
        /\ (call.div > call.pre.div /\ pc \in Switching \cup {"set_div", "store_freq"})
              => div_reg = call.div
        /\ (call.div < call.pre.div /\ pc \in {"raise_div"} \cup Switching \cup {"set_div"})
              => div_reg = call.pre.div
        /\ (call.div < call.pre.div /\ (pc = "store_freq" \/ Returned("true")))
              => div_reg = call.div

C3_Witness ==
    /\ InConfigure
    /\ kind = "glitchless"
    /\ pc = "set_div"
    /\ call.div < call.pre.div
    /\ div_reg = call.pre.div

\* The other direction of C3 happens as well.
C3_WitnessRaise ==
    /\ InConfigure
    /\ kind = "stoppable"
    /\ pc = "set_aux"
    /\ call.div > call.pre.div
    /\ div_reg = call.div

C5_AuxWrittenWhileDisabled ==
    (InConfigure /\ kind # "glitchless") =>
        /\ pc \in {"delay", "set_aux", "enable"} => ~ctrl.enable
        /\ pc = "enable" => ctrl.auxsrc = call.src.code
        /\ pc \in {"set_div", "store_freq"} => (ctrl.enable /\ ctrl.auxsrc = call.src.code)

C5_Witness ==
    /\ InConfigure
    /\ kind = "stoppable"
    /\ pc = "set_aux"
    /\ call.pre.ctrl.enable
    /\ ~ctrl.enable
    /\ ctrl.auxsrc # call.src.code

\* ------------------------------------------------------------------- C6
\* C6: every handle the clock manager has issued for the domain observes
\* the same cached frequency; in particular a handle requested after a
\* successful configure_clock does not read 0.
C6_HandlesAgree ==
    \A i \in Handles, j \in Handles : frequency[i] = frequency[j]

\* ------------------------------------------------------------------- C7
\* C7: on a glitchless domain the cached frequency keeps its old value
\* until the switch is confirmed; from the confirmation to the return of
\* true the selected-status register is the one-hot code of the requested
\* primary-mux code and the primary-mux field holds that code; at the
\* return the new frequency is recorded.
C7_ConfirmedBeforeRecorded ==
    (InConfigure /\ kind = "glitchless") =>
        /\ (pc \in {"set_div", "store_freq"} \/ Returned("true"))
              => (selected = Pow2(Requested) /\ ctrl.src = Requested)
        /\ pc \in {"raise_div"} \cup Switching \cup {"set_div", "store_freq"}
              => frequency[call.h] = call.pre.cached
        /\ Returned("true") => frequency[call.h] = call.src_freq \div call.div

C7_Witness ==
    /\ Returned("true")
    /\ kind = "glitchless"
    /\ call.src.aux
    /\ selected = Pow2(UseAuxSrc)
    /\ frequency[call.h] # call.pre.cached

\* ------------------------------------------------------------------- C8
\* C8: with hardware that eventually shows the one-hot code of the
\* primary-mux code last written, every glitchless configure_clock that
\* passed validation returns true; and the call gets past a poll only in a
\* state where the status register shows the code polled for, so without
\* that confirmation it never returns.
C8_LeavesPollOnlyConfirmed ==
    /\ (pc = "await_select" /\ pc' # "await_select") => selected = Pow2(token.clock_nr)
    /\ (InConfigure /\ pc = "reset_poll" /\ pc' = "set_aux") => selected = Pow2(ResetClockNr)
    /\ (InConfigure /\ kind = "glitchless" /\ result' = "true" /\ result # "true")
          => pc = "store_freq"

C8_ReturnsIffConfirmed ==
    /\ (kind = "glitchless" /\ pc = "raise_div") ~> Returned("true")
    /\ [][C8_LeavesPollOnlyConfirmed]_vars

C8_Witness ==
    /\ InConfigure
    /\ kind = "glitchless"
    /\ pc = "await_select"
    /\ selected # Pow2(token.clock_nr)

\* ------------------------------------------------------------------- C9
\* C9: a configure_clock that repeats the call before it (same handle,
\* source and target, the first having returned true) returns true and
\* leaves the control register, the divisor register, the cached frequency
\* and the confirmed selection as the first call left them.
C9_Idempotent ==
    (InConfigure /\ call.rep /\ pc = "ret") =>
        /\ result = "true"
        /\ ctrl = call.pre.ctrl
        /\ div_reg = call.pre.div
        /\ frequency[call.h] = call.pre.cached
        /\ kind = "glitchless" => selected = Pow2(ctrl.src)

C9_Witness ==
    /\ Returned("true")
    /\ call.rep
    /\ kind = "glitchless"
    /\ call.src.aux
    /\ ctrl.auxsrc = 1
    /\ call.div > 1

\* The repeated call happens on the other kinds of domain too.
C9_WitnessStoppable ==
    /\ Returned("true")
    /\ call.rep
    /\ kind = "stoppable"
    /\ call.delay > 0

\* ------------------------------------------------------------------ C10
\* C10: whenever a completion poll is about to run, it runs with a live,
\* not yet confirmed token whose clock_nr is the primary-mux code that the
\* operation which made the token wrote, and that code is in the control
\* register; a token that a poll has confirmed is never polled with again.
C10_TokenSingleUse ==
    /\ pc \in {"reset_poll", "await_select"} =>
          /\ token.live
          /\ ~token.confirmed
          /\ token.clock_nr = token.wrote
          /\ ctrl.src = token.wrote
    /\ token.confirmed => (token.live /\ pc \in {"set_div", "store_freq"})
    /\ token.live => pc \in {"reset_poll", "await_select", "set_div", "store_freq"}

C10_Witness ==
    /\ token.live
    /\ token.confirmed
    /\ token.clock_nr = AltSrc
    /\ pc = "store_freq"

\* ====================================================================
\* xosc.rs: the crystal oscillator
\* ====================================================================

\* Largest whole-megahertz frequency offered to initialize.
MaxMHz == 16
\* Most StableOscillatorTokens held at once.
MaxTokens == 2

HzPerMHz == 1000000
MinAllowedMHz == 1
MaxAllowedMHz == 15
MILLIS_PER_SECOND == 1000
DELAY_DIVIDER == 256
HalfDivider == 128
U16Max == 65535

\* Frequencies in hertz offered to initialize: every whole megahertz, and
\* the frequencies one hertz away from the two ends of the allowed range.
XoscFreqs ==
    { m * HzPerMHz : m \in 0..MaxMHz }
        \cup { MinAllowedMHz * HzPerMHz - 1, MinAllowedMHz * HzPerMHz + 1,
               MaxAllowedMHz * HzPerMHz - 1, MaxAllowedMHz * HzPerMHz + 1,
               (MaxAllowedMHz + 1) * HzPerMHz - 1 }

\* let freq_mhz: Megahertz = frequency.into(): integer division of the
\* hertz count by the scaling factor.
to_mhz(hz) == hz \div HzPerMHz

\* ALLOWED_FREQUENCY_RANGE.contains(&freq_mhz)
in_allowed_range(mhz) == MinAllowedMHz <= mhz /\ mhz <= MaxAllowedMHz

\* frequency.checked_div(MILLIS_PER_SECOND)
\*     .and_then(|r| r.checked_add(128)).and_then(|r| r.checked_div(256))
startup_delay(hz) == ((hz \div MILLIS_PER_SECOND) + HalfDivider) \div DELAY_DIVIDER

\* await_stabilization's test of STATUS.STABLE: a token is given when the
\* bit is not clear.
stable_ready_inverted(bit) == ~bit
stable_ready(bit) == bit

XoscRegs(x) == <<x.range, x.enable, x.startup>>

XoscIdle(x) == [x EXCEPT !.pc = "idle", !.op = "none", !.arg = 0, !.delay = 0,
                         !.result = "none", !.seen = FALSE,
                         !.pre = <<"reset", "reset", 0>>]

\* CrystalOscillator::new(dev)
XoscNew ==
    /\ xosc.pc = "idle" /\ xosc.state = "Free"
    /\ xosc' = [xosc EXCEPT !.state = "Disabled", !.freq_hz = 0]
    /\ UNCHANGED <<kind, ctrl, div_reg, selected, frequency, pc, call, token, result, timer, wd, frame>>

\* free(self): any typestate gives the device back; tokens are plain values
\* and stay with their holder.
XoscFree ==
    /\ xosc.pc = "idle" /\ xosc.state \in {"Disabled", "Initialized", "Stable", "Dormant"}
    /\ xosc' = [xosc EXCEPT !.state = "Free", !.freq_hz = 0]
    /\ UNCHANGED <<kind, ctrl, div_reg, selected, frequency, pc, call, token, result, timer, wd, frame>>

\* Entry of initialize(frequency), called directly on a Disabled oscillator
\* or by setup_xosc_blocking(dev, frequency) on a fresh one: the range check.
XoscInitialize(op, hz) ==
    /\ xosc.pc = "idle"
    /\ \/ op = "initialize" /\ xosc.state = "Disabled"
       \/ op = "setup" /\ xosc.state = "Free"
    /\ LET x == [xosc EXCEPT !.op = op, !.arg = hz, !.pre = XoscRegs(xosc),
                             !.seen = FALSE, !.delay = 0]
       IN  IF ~in_allowed_range(to_mhz(hz))
           THEN xosc' = [x EXCEPT !.state = "Dropped", !.pc = "ret",
                                  !.result = "FrequencyOutOfRange"]
           ELSE xosc' = [x EXCEPT !.state = "Disabled", !.pc = "x_range",
                                  !.result = "none"]
    /\ UNCHANGED <<kind, ctrl, div_reg, selected, frequency, pc, call, token, result, timer, wd, frame>>

\* ctrl.write(|w| w.freq_range()._1_15mhz()): the other field of CTRL takes
\* its reset value.
XoscWriteRange ==
    /\ xosc.pc = "x_range"
    /\ xosc' = [xosc EXCEPT !.range = "1_15mhz", !.enable = "reset", !.pc = "x_delay"]
    /\ UNCHANGED <<kind, ctrl, div_reg, selected, frequency, pc, call, token, result, timer, wd, frame>>

\* The startup delay and its conversion to u16.
XoscComputeDelay ==
    /\ xosc.pc = "x_delay"
    /\ LET d == startup_delay(xosc.arg)
       IN  IF d > U16Max
           THEN xosc' = [xosc EXCEPT !.state = "Dropped", !.pc = "ret",
                                     !.result = "BadArgument"]
           ELSE xosc' = [xosc EXCEPT !.delay = d, !.pc = "x_startup"]
    /\ UNCHANGED <<kind, ctrl, div_reg, selected, frequency, pc, call, token, result, timer, wd, frame>>

\* startup.write(|w| w.delay().bits(startup_delay))
XoscWriteStartup ==
    /\ xosc.pc = "x_startup"
    /\ xosc' = [xosc EXCEPT !.startup = xosc.delay, !.pc = "x_enable"]
    /\ UNCHANGED <<kind, ctrl, div_reg, selected, frequency, pc, call, token, result, timer, wd, frame>>

\* ctrl.write(|w| w.enable().enable()) and the transition to Initialized.
XoscWriteEnable ==
    /\ xosc.pc = "x_enable"
    /\ LET x == [xosc EXCEPT !.enable = "enable", !.range = "reset", !.dormant = FALSE,
                             !.state = "Initialized", !.freq_hz = xosc.arg,
                             !.init_freq = xosc.arg]
       IN  IF xosc.op = "initialize"
           THEN xosc' = [x EXCEPT !.pc = "ret", !.result = "Ok"]
           ELSE xosc' = [x EXCEPT !.pc = "x_await"]
    /\ UNCHANGED <<kind, ctrl, div_reg, selected, frequency, pc, call, token, result, timer, wd, frame>>

\* await_stabilization(&self) called by the program on an Initialized
\* oscillator: a token when the stable bit is set, WouldBlock otherwise.
XoscAwaitStabilization ==
    /\ xosc.pc = "idle" /\ xosc.state = "Initialized"
    /\ IF stable_ready(xosc.stable)
       THEN /\ xosc.tokens < MaxTokens
            /\ xosc' = [xosc EXCEPT !.tokens = @ + 1, !.op = "await", !.result = "Token",
                                    !.forged = @ \/ ~xosc.stable]
       ELSE xosc' = [xosc EXCEPT !.op = "await", !.result = "WouldBlock"]
    /\ UNCHANGED <<kind, ctrl, div_reg, selected, frequency, pc, call, token, result, timer, wd, frame>>

\* One poll of nb::block!(await_stabilization()) in setup_xosc_blocking
\* that finds the oscillator ready.
XoscBlockReady ==
    /\ xosc.pc = "x_await"
    /\ stable_ready(xosc.stable)
    /\ xosc' = [xosc EXCEPT !.pc = "x_get_stable", !.seen = xosc.stable,
                            !.forged = @ \/ ~xosc.stable]
    /\ UNCHANGED <<kind, ctrl, div_reg, selected, frequency, pc, call, token, result, timer, wd, frame>>

\* One poll that returns WouldBlock: nb::block! polls again.
XoscBlockWait ==
    /\ xosc.pc = "x_await"
    /\ ~stable_ready(xosc.stable)
    /\ UNCHANGED vars

\* get_stable(self, _token): consumes a token held by the program, or the
\* one setup_xosc_blocking has just obtained.
XoscGetStable ==
    /\ \/ /\ xosc.pc = "idle" /\ xosc.state = "Initialized" /\ xosc.tokens > 0
          /\ xosc' = [xosc EXCEPT !.state = "Stable", !.tokens = @ - 1,
                                  !.op = "get_stable", !.result = "Ok"]
       \/ /\ xosc.pc = "x_get_stable"
          /\ xosc' = [xosc EXCEPT !.state = "Stable", !.pc = "ret", !.result = "Ok"]
    /\ UNCHANGED <<kind, ctrl, div_reg, selected, frequency, pc, call, token, result, timer, wd, frame>>

\* Stable::disable(self): ctrl.modify(|_r, w| w.enable().disable())
XoscDisable ==
    /\ xosc.pc = "idle" /\ xosc.state = "Stable"
    /\ xosc' = [xosc EXCEPT !.enable = "disable", !.state = "Disabled", !.freq_hz = 0,
                            !.op = "disable", !.result = "Ok"]
    /\ UNCHANGED <<kind, ctrl, div_reg, selected, frequency, pc, call, token, result, timer, wd, frame>>

\* Stable::dormant(self): the oscillator stops until woken.
XoscDormant ==
    /\ xosc.pc = "idle" /\ xosc.state = "Stable"
    /\ xosc' = [xosc EXCEPT !.dormant = TRUE, !.state = "Dormant", !.freq_hz = 0,
                            !.op = "dormant", !.result = "Ok"]
    /\ UNCHANGED <<kind, ctrl, div_reg, selected, frequency, pc, call, token, result, timer, wd, frame>>

\* initialize or setup_xosc_blocking hands its result to the caller.
XoscReturn ==
    /\ xosc.pc = "ret"
    /\ xosc' = XoscIdle(IF xosc.state = "Dropped"
                        THEN [xosc EXCEPT !.state = "Free"] ELSE xosc)
    /\ UNCHANGED <<kind, ctrl, div_reg, selected, frequency, pc, call, token, result, timer, wd, frame>>

\* The oscillator: STATUS.STABLE comes up some time after the enable field
\* is written, and drops when the oscillator is disabled or dormant.
XoscHardware ==
    /\ \/ xosc.enable = "enable" /\ ~xosc.dormant /\ ~xosc.stable
       \/ (xosc.enable = "disable" \/ xosc.dormant) /\ xosc.stable
    /\ xosc' = [xosc EXCEPT !.stable = ~@]
    /\ UNCHANGED <<kind, ctrl, div_reg, selected, frequency, pc, call, token, result, timer, wd, frame>>

XoscNext ==
    \/ XoscNew
    \/ XoscFree
    \/ \E op \in {"initialize", "setup"}, hz \in XoscFreqs : XoscInitialize(op, hz)
    \/ XoscWriteRange
    \/ XoscComputeDelay
    \/ XoscWriteStartup
    \/ XoscWriteEnable
    \/ XoscAwaitStabilization
    \/ XoscBlockReady
    \/ XoscBlockWait
    \/ XoscGetStable
    \/ XoscDisable
    \/ XoscDormant
    \/ XoscReturn
    \/ XoscHardware

\* The oscillator does not depend on the clock domain, which stays as
\* constructed.
XoscInit == Init /\ kind = "glitchless"

XoscSpec == XoscInit /\ [][XoscNext]_vars

\* An initialize (direct, or inside setup_xosc_blocking) is in progress or
\* has just handed back its result.
InInitialize == xosc.op \in {"initialize", "setup"} /\ xosc.pc # "idle"

\* The frequency lies outside 1,000,000 Hz .. 15,000,000 Hz.
OutsideAllowedHz(hz) ==
    hz < MinAllowedMHz * HzPerMHz \/ hz > MaxAllowedMHz * HzPerMHz

\* C11: initialize(frequency) returns Err(FrequencyOutOfRange) exactly when
\* the frequency is below 1,000,000 Hz or above 15,000,000 Hz, and then no
\* XOSC register has been written; for every frequency inside the range it
\* goes on to return an Initialized oscillator.
C11_OutOfRangeExactly ==
    InInitialize =>
        /\ OutsideAllowedHz(xosc.arg) =>
               /\ xosc.pc = "ret"
               /\ xosc.result = "FrequencyOutOfRange"
               /\ XoscRegs(xosc) = xosc.pre
        /\ ~OutsideAllowedHz(xosc.arg) =>
               /\ xosc.result \notin {"FrequencyOutOfRange", "BadArgument"}
               /\ xosc.pc = "ret" => xosc.state \in {"Initialized", "Stable"}

\* The part of C11 the code keeps: a rejected call has written no register,
\* and every frequency below 1 MHz is rejected.
C11_RejectWritesNothing ==
    InInitialize =>
        /\ xosc.result = "FrequencyOutOfRange" =>
               XoscRegs(xosc) = xosc.pre /\ OutsideAllowedHz(xosc.arg)
        /\ xosc.arg < MinAllowedMHz * HzPerMHz => xosc.result = "FrequencyOutOfRange"

\* C12 (steps): the typestate changes only along Disabled -> initialize ->
\* Initialized -> get_stable (with a token) -> Stable, and a token is handed
\* out only at a poll that reads the stable bit set.
C12_Step ==
    /\ (xosc'.state = "Initialized" /\ xosc.state # "Initialized") =>
           xosc.state = "Disabled" /\ xosc.pc = "x_enable"
    /\ (xosc'.state = "Stable" /\ xosc.state # "Stable") =>
           /\ xosc.state = "Initialized"
           /\ \/ xosc'.tokens = xosc.tokens - 1
              \/ xosc.pc = "x_get_stable" /\ xosc.seen
    /\ (xosc'.tokens > xosc.tokens \/ xosc'.pc = "x_get_stable") =>
           xosc.stable /\ xosc.state = "Initialized"
    /\ (xosc.state = "Initialized" /\ xosc'.state = "Initialized"
          /\ xosc.pc = "idle" /\ xosc'.pc = "idle"
          /\ xosc'.stable = xosc.stable /\ xosc'.tokens = xosc.tokens /\ xosc' # xosc) =>
           ~xosc.stable /\ xosc'.result = "WouldBlock"

\* C12 (states): no token was ever issued on a clear stable bit; a Stable
\* oscillator carries the frequency given to initialize; and
\* setup_xosc_blocking returns Stable only after it has read the bit set.
C12_Inv ==
    /\ ~xosc.forged
    /\ xosc.state = "Stable" =>
           xosc.freq_hz = xosc.init_freq /\ xosc.init_freq > 0
    /\ (xosc.op = "setup" /\ xosc.pc = "ret" /\ xosc.result = "Ok") =>
           xosc.state = "Stable" /\ xosc.seen /\ xosc.freq_hz = xosc.arg

\* C12: the crystal oscillator's state machine, steps and states together.
C12_StateMachine == []C12_Inv /\ [][C12_Step]_vars

\* setup_xosc_blocking has returned a Stable oscillator.
C12_Witness ==
    xosc.op = "setup" /\ xosc.pc = "ret" /\ xosc.state = "Stable" /\ xosc.seen

\* A program-held token has been used with get_stable.
C12_WitnessToken ==
    xosc.op = "get_stable" /\ xosc.state = "Stable" /\ xosc.tokens > 0

\* C18: after initialize succeeds the XOSC registers hold all three
\* settings (frequency range 1-15 MHz, the computed startup delay, enable),
\* and the enable is written only after the other two.
C18_RegistersHoldSettings ==
    /\ (InInitialize /\ xosc.state \in {"Initialized", "Stable"}) =>
           /\ xosc.range = "1_15mhz"
           /\ xosc.startup = xosc.delay
           /\ xosc.enable = "enable"
    /\ (InInitialize /\ xosc.pc = "x_range") => XoscRegs(xosc) = xosc.pre
    /\ (InInitialize /\ xosc.pc \in {"x_delay", "x_startup", "x_enable"}) =>
           xosc.enable # "enable"

\* The part of C18 the code keeps: startup delay and enable are in place,
\* and the enable is written last.
C18_EnableLast ==
    /\ (InInitialize /\ xosc.state \in {"Initialized", "Stable"}) =>
           xosc.startup = xosc.delay /\ xosc.enable = "enable"
    /\ (InInitialize /\ xosc.pc = "x_range") => XoscRegs(xosc) = xosc.pre
    /\ (InInitialize /\ xosc.pc \in {"x_delay", "x_startup", "x_enable"}) =>
           xosc.enable # "enable"

\* C19: the programmed startup delay d is ((freq_hz / 1000) + 128) / 256,
\* it rounds up (d * 256 >= freq_hz / 1000), it fits in 16 bits, and
\* BadArgument is never returned for a frequency that passed the range check.
C19_DelayRoundsUp ==
    InInitialize =>
        /\ xosc.result # "BadArgument"
        /\ xosc.pc \in {"x_startup", "x_enable", "x_await", "x_get_stable", "ret"}
             /\ xosc.result # "FrequencyOutOfRange" =>
               /\ xosc.delay = ((xosc.arg \div 1000) + 128) \div 256
               /\ xosc.delay <= U16Max
               /\ xosc.delay * 256 >= xosc.arg \div 1000

\* The part of C19 the code keeps: the formula, the 16-bit fit and the
\* absence of BadArgument.
C19_DelayFits ==
    InInitialize =>
        /\ xosc.result # "BadArgument"
        /\ xosc.pc \in {"x_startup", "x_enable", "x_await", "x_get_stable", "ret"}
             /\ xosc.result # "FrequencyOutOfRange" =>
               /\ xosc.delay = ((xosc.arg \div 1000) + 128) \div 256
               /\ xosc.delay <= U16Max

\* ====================================================================
\* timer.rs: the 64-bit free-running counter
\* ====================================================================

\* Most advances of the counter in one behaviour.
MaxTicks == 4

\* Number of values of the low word: TIMERAWL holds count % WordSize and
\* TIMERAWH the rest. The registers are 32 bits wide; the words are scaled to
\* 16 bits so that the 64-bit count stays within the checker's integers.
\* The rollover of the low word into the high word is kept.
WordSize == 65536

timerawl(count) == count % WordSize
timerawh(count) == count \div WordSize

\* (high as u64) << 32 | low as u64
make_u64(high, low) == high * WordSize + low

\* The loop's exit test.
high_settled_always(high, next_high) == TRUE
high_settled(high, next_high) == high = next_high

\* The counter advances while the program runs: by one tick, or by enough
\* ticks to bring the low word to the brink of its next rollover.
TimerTick ==
    /\ timer.age < MaxTicks
    /\ \E d \in {1, WordSize - 1 - timerawl(timer.count)} :
           /\ d > 0
           /\ timer' = [timer EXCEPT !.count = @ + d, !.age = @ + 1]
    /\ UNCHANGED <<kind, ctrl, div_reg, selected, frequency, pc, call, token, result, xosc, wd, frame>>

\* try_now entry.
TimerTryNow ==
    /\ timer.pc = "idle"
    /\ timer' = [timer EXCEPT !.pc = "read_high", !.start = timer.count,
                              !.retries = 0, !.ret = 0]
    /\ UNCHANGED <<kind, ctrl, div_reg, selected, frequency, pc, call, token, result, xosc, wd, frame>>

\* let mut high = timerawh.read().bits()
TimerReadHigh ==
    /\ timer.pc = "read_high"
    /\ timer' = [timer EXCEPT !.high = timerawh(timer.count), !.pc = "read_low"]
    /\ UNCHANGED <<kind, ctrl, div_reg, selected, frequency, pc, call, token, result, xosc, wd, frame>>

\* let low = timerawl.read().bits()
TimerReadLow ==
    /\ timer.pc = "read_low"
    /\ timer' = [timer EXCEPT !.low = timerawl(timer.count), !.pc = "read_next"]
    /\ UNCHANGED <<kind, ctrl, div_reg, selected, frequency, pc, call, token, result, xosc, wd, frame>>

\* let next_high = timerawh.read().bits(); break when it equals high,
\* otherwise high = next_high and the low word is read again.
TimerReadNext ==
    /\ timer.pc = "read_next"
    /\ LET next_high == timerawh(timer.count)
       IN  IF high_settled(timer.high, next_high)
           THEN timer' = [timer EXCEPT !.pc = "done",
                                       !.ret = make_u64(timer.high, timer.low)]
           ELSE timer' = [timer EXCEPT !.high = next_high, !.pc = "read_low",
                                       !.retries = @ + 1]
    /\ UNCHANGED <<kind, ctrl, div_reg, selected, frequency, pc, call, token, result, xosc, wd, frame>>

\* Ok(...) is handed to the caller.
TimerReturn ==
    /\ timer.pc = "done"
    /\ timer' = [timer EXCEPT !.pc = "idle", !.high = 0, !.low = 0, !.start = 0,
                              !.ret = 0, !.retries = 0]
    /\ UNCHANGED <<kind, ctrl, div_reg, selected, frequency, pc, call, token, result, xosc, wd, frame>>

TimerNext ==
    \/ TimerTick
    \/ TimerTryNow
    \/ TimerReadHigh
    \/ TimerReadLow
    \/ TimerReadNext
    \/ TimerReturn

TimerInit == Init /\ kind = "glitchless"

TimerSpec == TimerInit /\ [][TimerNext]_vars

\* C13 (states): the value try_now returns is one the counter held between
\* the start and the end of the call.
C13_Inv ==
    timer.pc = "done" => timer.start <= timer.ret /\ timer.ret <= timer.count

\* C13 (steps): the loop is left exactly when the high word read after the
\* low word equals the high word read before it.
C13_Step ==
    timer.pc = "read_next" /\ timer'.pc # "read_next" =>
        (timer'.pc = "done" <=> timer.high = timer.count \div WordSize)

\* C13: try_now never returns a torn value and stops retrying as soon as
\* the high word is stable.
C13_NoTornRead == []C13_Inv /\ [][C13_Step]_vars

\* A call that met a low-word rollover between its reads, retried, and
\* returned.
C13_Witness ==
    /\ timer.pc = "done"
    /\ timer.retries > 0
    /\ timer.start \div WordSize < timer.count \div WordSize

\* ====================================================================
\* watchdog.rs
\* ====================================================================

\* Largest of the small periods offered to start.
MaxSmallPeriod == 2

MAX_PERIOD == 16777215

\* Periods offered to start, as top * 2^31 + rest: small ones, the two on
\* either side of MAX_PERIOD / 2, and the same with the top bit set.
WdPeriods ==
    [top : {0, 1},
     rest : (0..MaxSmallPeriod) \cup {MAX_PERIOD \div 2, MAX_PERIOD \div 2 + 1}]

\* period * 2 in u32 overflows exactly when the top bit is set.
mul2_overflows(p) == p.top = 1

\* period * 2 modulo 2^32: the top bit is shifted out.
wrapping_mul2(p) == 2 * p.rest

\* What `period * 2` can do: without overflow checks the product wraps,
\* with them an overflowing product panics.
Mul2Outcomes(p) == IF mul2_overflows(p) THEN {"wrap", "panic"} ELSE {"value"}

WdRegs(w) == <<w.enable, w.pause, w.load>>

\* ctrl.write(|w| w.enable().bit(bit)): the pause bits take their reset value.
wd_enable(w, bit) == [w EXCEPT !.enable = bit, !.pause = PauseReset]

\* load.write(|w| w.bits(counter))
load_counter(w, counter) == [w EXCEPT !.load = counter]

\* start(period): self.delay_ms = period * 2
WdStart(p) ==
    /\ wd.pc = "idle" /\ ~wd.panicked
    /\ \E o \in Mul2Outcomes(p) :
         LET w == [wd EXCEPT !.op = "start", !.period = p, !.pre = WdRegs(wd)]
         IN  IF o = "panic"
             THEN wd' = [w EXCEPT !.panicked = TRUE]
             ELSE wd' = [w EXCEPT !.delay_ms = wrapping_mul2(p), !.pc = "wd_check"]
    /\ UNCHANGED <<kind, ctrl, div_reg, selected, frequency, pc, call, token, result, xosc, timer, frame>>

\* if self.delay_ms > MAX_PERIOD { panic!(..) }
WdCheck ==
    /\ wd.pc = "wd_check"
    /\ IF wd.delay_ms > MAX_PERIOD
       THEN wd' = [wd EXCEPT !.panicked = TRUE, !.pc = "idle"]
       ELSE wd' = [wd EXCEPT !.pc = "wd_disable"]
    /\ UNCHANGED <<kind, ctrl, div_reg, selected, frequency, pc, call, token, result, xosc, timer, frame>>

\* Variant: start goes on to the load without the enable(false).
WdClearEnable_skipped ==
    /\ wd.pc = "wd_disable"
    /\ wd' = [wd EXCEPT !.pc = "wd_load"]
    /\ UNCHANGED <<kind, ctrl, div_reg, selected, frequency, pc, call, token, result, xosc, timer, frame>>

\* self.enable(false)
WdClearEnable ==
    /\ wd.pc = "wd_disable"
    /\ wd' = [wd_enable(wd, FALSE) EXCEPT !.pc = "wd_load"]
    /\ UNCHANGED <<kind, ctrl, div_reg, selected, frequency, pc, call, token, result, xosc, timer, frame>>

\* self.load_counter(self.delay_ms)
WdLoad ==
    /\ wd.pc = "wd_load"
    /\ wd' = [load_counter(wd, wd.delay_ms) EXCEPT !.pc = "wd_enable"]
    /\ UNCHANGED <<kind, ctrl, div_reg, selected, frequency, pc, call, token, result, xosc, timer, frame>>

\* self.enable(true), and start returns.
WdSetEnable ==
    /\ wd.pc = "wd_enable"
    /\ wd' = [wd_enable(wd, TRUE) EXCEPT !.pc = "idle", !.started = wd.load,
                                         !.armed = TRUE, !.want_enable = TRUE]
    /\ UNCHANGED <<kind, ctrl, div_reg, selected, frequency, pc, call, token, result, xosc, timer, frame>>

\* feed(): self.load_counter(self.delay_ms)
WdFeed ==
    /\ wd.pc = "idle" /\ ~wd.panicked
    /\ wd' = [load_counter(wd, wd.delay_ms) EXCEPT !.op = "feed"]
    /\ UNCHANGED <<kind, ctrl, div_reg, selected, frequency, pc, call, token, result, xosc, timer, frame>>

\* disable(): self.enable(false)
WdDisable ==
    /\ wd.pc = "idle" /\ ~wd.panicked
    /\ wd' = [wd_enable(wd, FALSE) EXCEPT !.op = "disable", !.want_enable = FALSE]
    /\ UNCHANGED <<kind, ctrl, div_reg, selected, frequency, pc, call, token, result, xosc, timer, frame>>

\* pause_on_debug(pause): ctrl.write of the three pause bits; the enable bit
\* takes its reset value.
WdPauseOnDebug(pause) ==
    /\ wd.pc = "idle" /\ ~wd.panicked
    /\ wd' = [wd EXCEPT !.pause = pause, !.enable = FALSE, !.op = "pause_on_debug",
                         !.want_pause = pause]
    /\ UNCHANGED <<kind, ctrl, div_reg, selected, frequency, pc, call, token, result, xosc, timer, frame>>

WdNext ==
    \/ \E p \in WdPeriods : WdStart(p)
    \/ WdCheck
    \/ WdClearEnable
    \/ WdLoad
    \/ WdSetEnable
    \/ WdFeed
    \/ WdDisable
    \/ \E pause \in BOOLEAN : WdPauseOnDebug(pause)

WdInit == Init /\ kind = "glitchless"

WdSpec == WdInit /\ [][WdNext]_vars

\* 2 * period <= 0xFFFFFF, for a period held as top * 2^31 + rest.
PeriodFits(p) == p.top = 0 /\ 2 * p.rest <= MAX_PERIOD

\* C20: start(period) either loads exactly 2 * period (when that is at most
\* 0xFFFFFF) or panics without writing any watchdog register (when it is
\* more); the load register never holds more than 0xFFFFFF; a later feed()
\* reloads the value loaded by the most recent successful start.
C20_StartLoadsOrPanics ==
    /\ (wd.op = "start" /\ wd.panicked) =>
           ~PeriodFits(wd.period) /\ WdRegs(wd) = wd.pre
    /\ (wd.op = "start" /\ ~wd.panicked /\ wd.pc # "wd_check") =>
           /\ PeriodFits(wd.period)
           /\ wd.pc = "idle" => wd.load = 2 * wd.period.rest /\ wd.load = wd.started
    /\ wd.load <= MAX_PERIOD
    /\ (wd.op = "feed" /\ wd.armed) => wd.load = wd.started

\* The part of C20 the code keeps: whatever start loads passed the
\* comparison with MAX_PERIOD, a panic leaves the registers alone, and feed
\* reloads what the last successful start loaded.
C20_LoadWithinMax ==
    /\ (wd.op = "start" /\ wd.panicked) => WdRegs(wd) = wd.pre
    /\ (wd.op = "start" /\ ~wd.panicked /\ wd.pc = "idle") => wd.load = wd.delay_ms
    /\ wd.load <= MAX_PERIOD
    /\ (wd.op = "feed" /\ wd.armed) => wd.load = wd.started

\* ====================================================================
\* clocks/macros.rs: further properties of the clock domain
\* ====================================================================

\* The rates the domain's sources may run at during one call: the source
\* passed to configure_clock runs at the frequency the call read from it,
\* and the index-0 source is no faster than any auxiliary source.
SourceRates ==
    { r \in [ValidSrc(kind) -> Freqs] :
        /\ r[call.src] = call.src_freq
        /\ kind = "glitchless" =>
               \A a \in AuxCodes :
                   r[[aux |-> FALSE, code |-> DefaultSrc]] <= r[[aux |-> TRUE, code |-> a]] }

\* The source feeding the domain when the selected-status register reads
\* sel and the control register holds c.
ActiveSource(sel, c) ==
    IF kind = "glitchless" /\ sel # Pow2(UseAuxSrc)
    THEN [aux |-> FALSE, code |-> CHOOSE i \in SrcCodes : sel = Pow2(i)]
    ELSE [aux |-> TRUE, code |-> c.auxsrc]

\* The domain's output in hertz: the active source over the divisor the
\* hardware applies, 0 while a stoppable domain is disabled or killed.
OutputFreq(r, sel, c, reg) ==
    IF kind # "glitchless" /\ (~c.enable \/ c.kill)
    THEN 0
    ELSE r[ActiveSource(sel, c)] \div (IF kind = "nodiv" THEN FixedDiv ELSE reg)

Max(a, b) == IF a >= b THEN a ELSE b

\* A successful configure_clock, entered with no switch pending, is under
\* way or has just returned true.
SuccessfulCall ==
    /\ InConfigure
    /\ pc \notin {"idle"}
    /\ result # "false"
    /\ call.pre.sel = Pow2(call.pre.ctrl.src)

\* C14: during a successful configure_clock the output frequency never
\* exceeds the larger of the output before the call and the frequency the
\* call records, whatever rates the sources run at within the assumption.
C14_NoOverspeed ==
    SuccessfulCall =>
        \A r \in SourceRates :
            OutputFreq(r, selected, ctrl, div_reg)
                <= Max(OutputFreq(r, call.pre.sel, call.pre.ctrl, call.pre.div),
                       call.src_freq \div call.div)

\* The part of C14 the code keeps: a domain with a divider, and not a
\* glitchless domain that is taken off its auxiliary input by the call.
C14_NoOverspeedElsewhere ==
    (/\ SuccessfulCall
     /\ kind # "nodiv"
     /\ ~(kind = "glitchless" /\ call.src.aux /\ call.pre.ctrl.src = UseAuxSrc)) =>
        \A r \in SourceRates :
            OutputFreq(r, selected, ctrl, div_reg)
                <= Max(OutputFreq(r, call.pre.sel, call.pre.ctrl, call.pre.div),
                       call.src_freq \div call.div)

\* A stoppable configure_clock is past the point where the settle delay is
\* either taken or skipped.
PastDelay ==
    InConfigure /\ kind # "glitchless" /\ pc \in {"set_aux", "enable", "set_div", "store_freq"}

\* C15: on a stoppable domain that was configured earlier through any
\* handle, configure_clock executes the settle delay between the disable
\* and the write of the auxiliary mux; the delay is skipped only when the
\* domain has never been configured.
C15_DelayWhenConfigured ==
    PastDelay =>
        /\ (call.pre.ctrl.enable /\ \E h \in Handles : frequency[h] > 0) => call.delay > 0
        /\ call.delay = 0 => \A h \in Handles : frequency[h] = 0

\* The part of C15 the code keeps: the delay follows the cached frequency
\* of the handle the call is made on.
C15_DelayFollowsHandle ==
    PastDelay => (call.delay > 0 <=> call.pre.cached > 0)

\* One step of reset_source_await leaves every field but src alone, and
\* its write sets src to the default source.
ResetStepOnlySrc ==
    pc \in {"reset_write", "reset_poll"} =>
        /\ ctrl'.auxsrc = ctrl.auxsrc
        /\ ctrl'.enable = ctrl.enable
        /\ ctrl'.kill = ctrl.kill
        /\ pc = "reset_write" => ctrl'.src = DefaultSrc

\* C16: reset_source_await changes only the primary-mux field, which
\* becomes the default source; the auxiliary-mux field and the other
\* fields keep their values, at the first write and at every retry.
C16_ResetChangesOnlySrc == [][ResetStepOnlySrc]_vars

ResetStepSetsDefault ==
    /\ pc = "reset_write" => ctrl'.src = DefaultSrc
    /\ pc = "reset_poll" => ctrl' = ctrl

\* The part of C16 the code keeps: the primary mux is set to the default
\* source, and the poll itself writes nothing.
C16_ResetSetsDefault == [][ResetStepSetsDefault]_vars

\* ====================================================================
\* clocks/macros.rs: two domains, whole operations
\* ====================================================================

\* The register block the macro pastes into a domain's code: the domain's
\* own ($reg _ctrl, $reg _div, $reg _selected).
reg_of_first(x) == "clk_a"
reg_of(x) == x

\* configure_clock from entry to return on a domain d of kind k, the
\* hardware confirming each switch it is asked for.
configure_whole(k, d, v, src_freq, freq) ==
    IF TooHigh(freq, src_freq)
    THEN d
    ELSE LET div == make_div(src_freq, freq)
             early == IF IncreasingDiv(div, get_div(k, d.div))
                      THEN set_div(k, d.div, div) ELSE d.div
             c == IF k = "glitchless"
                  THEN IF is_aux(v)
                       THEN set_self_aux_src_write(
                                set_aux_write(reset_source_write(d.ctrl), v))
                       ELSE set_src_write(d.ctrl, v)
                  ELSE enable(set_aux_write(disable(d.ctrl), v))
         IN  [ctrl |-> c,
              div |-> set_div(k, early, div),
              selected |-> IF k = "glitchless" THEN Pow2(c.src) ELSE d.selected,
              cached |-> make_frequency(src_freq, div)]

\* The calls a program can make on domain x.
FrameOps(x) ==
    [op : {"configure_clock"}, src : ValidSrc(FrameKind[x]),
     src_freq : Freqs, freq : Freqs, div : {0}]
        \cup [op : {"set_div"}, src : {NoSrc}, src_freq : {0}, freq : {0}, div : Freqs]
        \cup (IF FrameKind[x] = "glitchless"
              THEN {}
              ELSE [op : {"enable", "disable", "kill"}, src : {NoSrc},
                    src_freq : {0}, freq : {0}, div : {0}])

\* One whole call o on a domain d of kind k.
apply_op(k, d, o) ==
    CASE o.op = "configure_clock" -> configure_whole(k, d, o.src, o.src_freq, o.freq)
      [] o.op = "set_div" -> [d EXCEPT !.div = set_div(k, d.div, o.div)]
      [] o.op = "enable" -> [d EXCEPT !.ctrl = enable(d.ctrl)]
      [] o.op = "disable" -> [d EXCEPT !.ctrl = disable(d.ctrl)]
      [] o.op = "kill" -> [d EXCEPT !.ctrl = kill(d.ctrl)]

\* The registers and handles after call o on domain x: the call works on
\* the registers the macro pasted for x and on x's handle.
frame_after(f, x, o) ==
    LET r == reg_of(x)
        d == [ctrl |-> f.regs[r].ctrl, div |-> f.regs[r].div,
              selected |-> f.regs[r].selected, cached |-> f.cached[x]]
        n == apply_op(FrameKind[x], d, o)
    IN  [f EXCEPT !.regs[r] = [ctrl |-> n.ctrl, div |-> n.div, selected |-> n.selected],
                  !.cached[x] = n.cached]

\* The program makes one whole call on one domain.
FrameCall(x, o) ==
    /\ frame' = [frame_after(frame, x, o) EXCEPT !.last = x]
    /\ UNCHANGED <<kind, ctrl, div_reg, selected, frequency, pc, call, token, result, xosc, timer, wd>>

FrameNext == \E x \in FrameDomains : \E o \in FrameOps(x) : FrameCall(x, o)

FrameInit == Init /\ kind = "glitchless"

FrameSpec == FrameInit /\ [][FrameNext]_vars

\* Registers and handles, without the record of the last call.
FrameState(f) == <<f.regs, f.cached>>

\* C17 (steps): a call on one domain leaves the control register, divisor
\* register, selected status and cached frequency of every other domain
\* as they were.
C17_Frame ==
    \A y \in FrameDomains :
        y # frame'.last =>
            frame'.regs[y] = frame.regs[y] /\ frame'.cached[y] = frame.cached[y]

\* C17 (states): from every reachable state, a call on clk_a and a call on
\* clk_b give the same final state in either order.
C17_Commute ==
    \A a \in FrameOps("clk_a"), b \in FrameOps("clk_b") :
        FrameState(frame_after(frame_after(frame, "clk_a", a), "clk_b", b))
            = FrameState(frame_after(frame_after(frame, "clk_b", b), "clk_a", a))

\* C17: operations on distinct domains do not touch each other's state and
\* commute.
C17_DomainsIndependent == []C17_Commute /\ [][C17_Frame]_vars

\* Both domains have been configured, clk_b last, and clk_a still shows
\* what its own call left.
C17_Witness ==
    /\ frame.last = "clk_b"
    /\ frame.regs["clk_b"].ctrl.enable
    /\ frame.regs["clk_b"].ctrl.auxsrc = 1
    /\ frame.cached["clk_b"] > 0
    /\ frame.regs["clk_a"].ctrl.src = AltSrc
    /\ frame.regs["clk_a"].div > 1
    /\ frame.cached["clk_a"] > 0

\* ====================================================================
\* watchdog.rs: order of start, and the control register's fields
\* ====================================================================

\* C21: start re-arms in a fixed order: the enable bit is cleared first, the
\* load register is written while the watchdog is disabled, and the enable
\* bit is set only after the load; once start has returned the watchdog is
\* enabled, and once disable() has returned it is disabled.
C21_StartOrder ==
    /\ wd.pc = "wd_load" => ~wd.enable
    /\ wd.pc = "wd_enable" => ~wd.enable /\ wd.load = wd.delay_ms
    /\ (wd.op = "start" /\ wd.pc = "idle" /\ ~wd.panicked) =>
           wd.enable /\ wd.load = wd.delay_ms
    /\ (wd.op = "disable" /\ wd.pc = "idle") => ~wd.enable

\* A start on a watchdog that was already running, at the point where the
\* new value is loaded and the enable bit is still clear.
C21_Witness ==
    /\ wd.pc = "wd_enable"
    /\ wd.pre[1]
    /\ ~wd.enable
    /\ wd.load = wd.delay_ms
    /\ wd.load # wd.pre[3]

\* start has returned with the watchdog enabled.
C21_WitnessStarted ==
    wd.op = "start" /\ wd.pc = "idle" /\ ~wd.panicked /\ wd.enable /\ wd.load > 0

\* One step of the domain while the selected-status register shows the
\* auxiliary input as the active selection leaves the auxiliary-mux field
\* alone.
AuxStableWhileSelected ==
    (kind = "glitchless" /\ selected = Pow2(UseAuxSrc)) => ctrl'.auxsrc = ctrl.auxsrc

\* C22: on a glitchless domain the auxiliary-mux field never changes while
\* the selected-status register reports the 'use auxiliary input' code as
\* the active selection.
C22_AuxFixedWhileSelected == [][AuxStableWhileSelected]_vars

\* The same for every step but the register write of reset_source_await.
AuxStableOutsideReset ==
    (kind = "glitchless" /\ selected = Pow2(UseAuxSrc) /\ pc # "reset_write") =>
        ctrl'.auxsrc = ctrl.auxsrc

\* The part of C22 the code keeps: set_aux itself is only reached with the
\* glitchless mux confirmed on index 0.
C22_SetAuxOnDefault == [][AuxStableOutsideReset]_vars

\* C23: between calls the control register's enable bit is what the most
\* recent start/disable asked for, and its pause bits are what the most
\* recent pause_on_debug asked for.
C23_EnableAndPauseIndependent ==
    wd.pc = "idle" => wd.enable = wd.want_enable /\ wd.pause = wd.want_pause

====
